---------------------------- MODULE Spec2Model ----------------------------
(***************************************************************************)
(* A model of the neural-network engine of this repository: the Matrix     *)
(* helper class and the NeuralNetwork class (construct, setLearningRate,   *)
(* predict, train, serialize, deserialize).                                *)
(*                                                                         *)
(* Numbers.  The program computes with IEEE doubles.  The model computes   *)
(* with fixed-point numbers: an integer x stands for x / Scale, sums and   *)
(* differences are exact, a product is rounded toward zero to a multiple   *)
(* of 1 / Scale, and sigmoid is rounded to the nearest multiple of         *)
(* 1 / Scale.  NaN stands for JavaScript's NaN and for `undefined' read    *)
(* from a missing array slot (every use of such a slot is arithmetic).     *)
(*                                                                         *)
(* Storage.  A JavaScript array is a reference.  The rows of a matrix owned *)
(* by a network or named by a snapshot live in `heap', and the matrix or   *)
(* snapshot holds the address; two holders of one address share the rows.  *)
(* A matrix that is local to one call holds its rows directly.             *)
(***************************************************************************)
EXTENDS Integers, Sequences, FiniteSets, TLC

\* ------------------------------------------------------------------ bounds
MaxSteps == 3        \* calls made on the networks in one behaviour
MaxSnaps == 2        \* snapshots the caller keeps
MaxSeed == 2         \* outcomes of the random source that are explored
MaxDim == 2          \* largest rows / cols of a matrix handed to multiply
MaxClicks == 2       \* clicks on the App's controls in one behaviour
MaxFrames == 1       \* animation frames the browser runs in one behaviour

\* ----------------------------------------------------------------- numbers
Scale == 100
NaN == -1000000

IsNaN(x) == x = NaN

Min(a, b) == IF a < b THEN a ELSE b
Max(a, b) == IF a > b THEN a ELSE b

\* x + y, x - y and x * y on numbers (+=, -, *=, * in the source)
num_add(x, y) == IF IsNaN(x) \/ IsNaN(y) THEN NaN ELSE x + y
num_sub(x, y) == IF IsNaN(x) \/ IsNaN(y) THEN NaN ELSE x - y
num_mul(x, y) ==
    IF IsNaN(x) \/ IsNaN(y) THEN NaN
    ELSE IF x * y >= 0 THEN (x * y) \div Scale ELSE 0 - ((0 - (x * y)) \div Scale)

\* SigmoidSteps[k] is the least x with round(Scale / (1 + exp(-x / Scale))) >= k
SigmoidSteps ==
  << -529, -418, -366, -331, -305, -284, -266, -251, -237, -225,
     -214, -204, -194, -185, -177, -169, -162, -155, -148, -141,
     -135, -129, -123, -118, -112, -107, -102, -96, -91, -87,
     -82, -77, -73, -68, -64, -59, -55, -51, -46, -42,
     -38, -34, -30, -26, -22, -18, -14, -10, -6, -2,
     3, 7, 11, 15, 19, 23, 27, 31, 35, 39,
     43, 47, 52, 56, 60, 65, 69, 74, 78, 83,
     88, 92, 97, 103, 108, 113, 119, 124, 130, 136,
     142, 149, 156, 163, 170, 178, 186, 195, 205, 215,
     226, 238, 252, 267, 285, 306, 332, 367, 419, 530 >>

sigmoid(x) ==
    IF IsNaN(x) THEN NaN
    ELSE Cardinality({k \in 1..Len(SigmoidSteps) : SigmoidSteps[k] <= x})

dsigmoid(y) == num_mul(y, num_sub(Scale, y))

\* Math.random() * 2 - 1: a value in [-1, 1); `seed' names the outcome of the
\* random source and (i, j) the draw.
random(seed, i, j) == ((seed * 37 + i * 53 + j * 71) % (2 * Scale)) - Scale

\* ---------------------------------------------------------------- matrices
\* A matrix is [rows, cols, data]; data is a sequence of rows (1-based here,
\* 0-based in the source).  rows / cols are fields of the object and data is
\* whatever array the object holds: nothing ties them together.
NoMatrix == [rows |-> 0, cols |-> 0, data |-> << >>]

Ok(m) == [ok |-> TRUE, err |-> "", m |-> m]
Fail(err, m) == [ok |-> FALSE, err |-> err, m |-> m]

\* new Matrix(rows, cols)
Matrix(rows, cols) ==
    [rows |-> rows, cols |-> cols, data |-> [i \in 1..rows |-> [j \in 1..cols |-> 0]]]

\* m.data[i][j] for a row i that exists: a slot past the row's end reads
\* undefined, which arithmetic turns into NaN
rd(m, i, j) == IF i <= Len(m.data) /\ j <= Len(m.data[i]) THEN m.data[i][j] ELSE NaN

\* the first row index below `rows' that m.data lacks (rows + 1: none).
\* Reading m.data[i][j] for that i throws a TypeError.
firstMissingRow(m, rows) == IF Len(m.data) < rows THEN Len(m.data) + 1 ELSE rows + 1

\* The loops `for i < rows, for j < cols: this.data[i][j] = F[i, j]' run on
\* `this' up to, not including, row `stop'.  Writing past a row's end extends it.
writeRows(this, stop, F) ==
    [this EXCEPT !.data =
        [i \in 1..Len(this.data) |->
            IF i < stop /\ i <= this.rows
            THEN [j \in 1..Max(Len(this.data[i]), this.cols) |->
                    IF j <= this.cols THEN F[i, j] ELSE this.data[i][j]]
            ELSE this.data[i]]]

fromArray(arr) ==
    [rows |-> Len(arr), cols |-> 1, data |-> [i \in 1..Len(arr) |-> << arr[i] >>]]

toArray(m) == [i \in 1..(m.rows * m.cols) |->
                 m.data[((i - 1) \div m.cols) + 1][((i - 1) % m.cols) + 1]]

randomize(m, seed, stream) ==
    [m EXCEPT !.data = [i \in 1..m.rows |-> [j \in 1..m.cols |->
                            random(seed + stream, i, j)]]]

\* this.add(n) for a Matrix n.  The result's m is `this' after the call: rows
\* before the one whose read throws have already been written.
add(this, n) ==
    IF this.rows # n.rows \/ this.cols # n.cols
    THEN Fail("Error", this)
    ELSE LET stop == IF this.cols = 0 THEN this.rows + 1
                     ELSE Min(firstMissingRow(this, this.rows),
                              firstMissingRow(n, this.rows))
             done == writeRows(this, stop,
                        [i \in 1..this.rows, j \in 1..this.cols |->
                            num_add(rd(this, i, j), rd(n, i, j))])
         IN  IF stop <= this.rows THEN Fail("TypeError", done) ELSE Ok(done)

\* Matrix.subtract(a, b)
subtract(a, b) ==
    IF a.rows # b.rows \/ a.cols # b.cols
    THEN Fail("Error", NoMatrix)
    ELSE IF a.cols > 0
            /\ Min(firstMissingRow(a, a.rows), firstMissingRow(b, a.rows)) <= a.rows
    THEN Fail("TypeError", NoMatrix)
    ELSE Ok(writeRows(Matrix(a.rows, a.cols), a.rows + 1,
                [i \in 1..a.rows, j \in 1..a.cols |->
                    num_sub(rd(a, i, j), rd(b, i, j))]))

\* Matrix.transpose(matrix) with the two indices of the read exchanged
transpose_unswapped(matrix) ==
    IF matrix.cols > 0 /\ firstMissingRow(matrix, matrix.rows) <= matrix.rows
    THEN Fail("TypeError", NoMatrix)
    ELSE Ok(writeRows(Matrix(matrix.cols, matrix.rows), matrix.cols + 1,
                [j \in 1..matrix.cols, i \in 1..matrix.rows |-> rd(matrix, j, i)]))

\* Matrix.transpose(matrix)
transpose(matrix) ==
    IF matrix.cols > 0 /\ firstMissingRow(matrix, matrix.rows) <= matrix.rows
    THEN Fail("TypeError", NoMatrix)
    ELSE Ok(writeRows(Matrix(matrix.cols, matrix.rows), matrix.cols + 1,
                [j \in 1..matrix.cols, i \in 1..matrix.rows |-> rd(matrix, i, j)]))

\* the sum with its loop started at k = 1, not k = 0
RECURSIVE dot_from_second(_, _, _, _, _)
dot_from_second(a, b, i, j, k) ==
    IF k <= 1 THEN 0
    ELSE num_add(dot_from_second(a, b, i, j, k - 1), num_mul(rd(a, i, k), rd(b, k, j)))

\* sum = 0; for k < a.cols: sum += a.data[i][k] * b.data[k][j]
RECURSIVE dot(_, _, _, _, _)
dot(a, b, i, j, k) ==
    IF k = 0 THEN 0
    ELSE num_add(dot(a, b, i, j, k - 1), num_mul(rd(a, i, k), rd(b, k, j)))

\* Matrix.multiply(a, b) without the check of a.cols against b.rows
Matrix_multiply_unchecked(a, b) ==
    IF a.rows > 0 /\ b.cols > 0 /\ a.cols > 0
       /\ (firstMissingRow(a, a.rows) <= a.rows
           \/ firstMissingRow(b, a.cols) <= a.cols)
    THEN Fail("TypeError", NoMatrix)
    ELSE Ok(writeRows(Matrix(a.rows, b.cols), a.rows + 1,
                [i \in 1..a.rows, j \in 1..b.cols |-> dot(a, b, i, j, a.cols)]))

\* Matrix.multiply(a, b): the matrix product
Matrix_multiply(a, b) ==
    IF a.cols # b.rows
    THEN Fail("Error", NoMatrix)
    ELSE IF a.rows > 0 /\ b.cols > 0 /\ a.cols > 0
            /\ (firstMissingRow(a, a.rows) <= a.rows
                \/ firstMissingRow(b, b.rows) <= b.rows)
    THEN Fail("TypeError", NoMatrix)
    ELSE Ok(writeRows(Matrix(a.rows, b.cols), a.rows + 1,
                [i \in 1..a.rows, j \in 1..b.cols |-> dot(a, b, i, j, a.cols)]))

\* this.multiply(n) for a Matrix n: element-wise, in place
multiply(this, n) ==
    IF this.rows # n.rows \/ this.cols # n.cols
    THEN Fail("Error", this)
    ELSE LET stop == IF this.cols = 0 THEN this.rows + 1
                     ELSE Min(firstMissingRow(this, this.rows),
                              firstMissingRow(n, this.rows))
             done == writeRows(this, stop,
                        [i \in 1..this.rows, j \in 1..this.cols |->
                            num_mul(rd(this, i, j), rd(n, i, j))])
         IN  IF stop <= this.rows THEN Fail("TypeError", done) ELSE Ok(done)

\* this.multiply(n) for a number n: scalar, in place
multiply_scalar(this, n) ==
    LET stop == IF this.cols = 0 THEN this.rows + 1
                ELSE firstMissingRow(this, this.rows)
        done == writeRows(this, stop,
                    [i \in 1..this.rows, j \in 1..this.cols |->
                        num_mul(rd(this, i, j), n)])
    IN  IF stop <= this.rows THEN Fail("TypeError", done) ELSE Ok(done)

\* fn(x) for the two functions the source hands to map
call(fn, x) == IF fn = "sigmoid" THEN sigmoid(x) ELSE dsigmoid(x)

\* this.map(fn): in place
map(this, fn) ==
    LET stop == IF this.cols = 0 THEN this.rows + 1
                ELSE firstMissingRow(this, this.rows)
        done == writeRows(this, stop,
                    [i \in 1..this.rows, j \in 1..this.cols |->
                        call(fn, rd(this, i, j))])
    IN  IF stop <= this.rows THEN Fail("TypeError", done) ELSE Ok(done)

\* Matrix.map(matrix, fn)
Matrix_map(matrix, fn) ==
    IF matrix.cols > 0 /\ firstMissingRow(matrix, matrix.rows) <= matrix.rows
    THEN Fail("TypeError", NoMatrix)
    ELSE Ok(writeRows(Matrix(matrix.rows, matrix.cols), matrix.rows + 1,
                [i \in 1..matrix.rows, j \in 1..matrix.cols |->
                    call(fn, rd(matrix, i, j))]))

\* ------------------------------------------------------------ row storage
\* A Matrix object with its storage: data is the sequence of the addresses
\* of its row arrays in `cells' (address -> row).
held(cells, obj) ==
    [rows |-> obj.rows, cols |-> obj.cols,
     data |-> [i \in 1..Len(obj.data) |-> cells[obj.data[i]]]]

\* the row arrays of the first matrix made, handed out again
Matrix_rows_first(cells, count) == [i \in 1..count |-> i]

\* Array(rows).fill(0).map(() => Array(cols).fill(0)): `count' new row arrays
Matrix_rows(cells, count) == [i \in 1..count |-> Len(cells) + i]

\* the cells once the rows at addresses `addrs' hold `data'
put(cells, addrs, data) ==
    [k \in 1..Max(Len(cells), IF Len(addrs) = 0 THEN 0 ELSE addrs[Len(addrs)]) |->
        IF \E i \in 1..Len(addrs) : addrs[i] = k
        THEN data[CHOOSE i \in 1..Len(addrs) : addrs[i] = k]
        ELSE cells[k]]

\* a matrix whose rows are stored in new row arrays
place(cells, m) ==
    [cells |-> put(cells, Matrix_rows(cells, Len(m.data)), m.data),
     obj |-> [rows |-> m.rows, cols |-> m.cols,
              data |-> Matrix_rows(cells, Len(m.data))]]

\* the four static operations, by name
StaticOps == {"subtract", "transpose", "multiply", "map"}

static(op, a, b) ==
    IF op = "subtract" THEN subtract(a, b)
    ELSE IF op = "transpose" THEN transpose(a)
    ELSE IF op = "multiply" THEN Matrix_multiply(a, b)
    ELSE Matrix_map(a, "sigmoid")

\* result = Matrix.op(a, b) on stored operands: the result's rows are those
\* of the new Matrix the operation makes
staticCall(cells, op, a, b) ==
    LET res == static(op, held(cells, a), held(cells, b))
        rows == Matrix_rows(cells, Len(res.m.data))
    IN  IF ~res.ok THEN [cells |-> cells, r |-> res]
        ELSE [cells |-> put(cells, rows, res.m.data),
              r |-> Ok([rows |-> res.m.rows, cols |-> res.m.cols, data |-> rows])]

\* the in-place operations made on a result
InPlaceOps == {"add", "multiply", "map"}

inPlace(op, this, n) ==
    IF op = "add" THEN add(this, n)
    ELSE IF op = "multiply" THEN multiply_scalar(this, 2 * Scale)
    ELSE map(this, "sigmoid")

\* obj.op(n) on a stored matrix: the writes go to the rows obj holds
inPlaceCall(cells, op, obj, n) ==
    put(cells, obj.data, inPlace(op, held(cells, obj), held(cells, n)).m.data)

\* ----------------------------------------------------------------- network
\* A network's matrix holds the address of its rows in the heap.
deref(h, m) == [rows |-> m.rows, cols |-> m.cols, data |-> h[m.data]]

\* what an in-place call on a network's matrix leaves in the heap
store(h, m, after) == [h EXCEPT ![m.data] = after.data]

\* new Matrix(rows, cols).randomize() held by a network: the rows go to the
\* heap at address `at'
alloc(rows, cols, at) == [rows |-> rows, cols |-> cols, data |-> at]

\* new NeuralNetwork(input, hidden, output): the network and the heap with its
\* four new matrices
NeuralNetwork(h, input, hidden, output, seed) ==
    LET at == Len(h)
    IN  [net |-> [inputNodes |-> input,
                  hiddenNodes |-> hidden,
                  outputNodes |-> output,
                  weights_ih |-> alloc(hidden, input, at + 1),
                  weights_ho |-> alloc(output, hidden, at + 2),
                  bias_h |-> alloc(hidden, 1, at + 3),
                  bias_o |-> alloc(output, 1, at + 4),
                  learningRate |-> Scale \div 10],
         heap |-> h \o << randomize(Matrix(hidden, input), 4 * seed, 0).data,
                         randomize(Matrix(output, hidden), 4 * seed, 1).data,
                         randomize(Matrix(hidden, 1), 4 * seed, 2).data,
                         randomize(Matrix(output, 1), 4 * seed, 3).data >>]

\* setLearningRate(rate) that accepts a positive rate only
setLearningRate_positive(n, rate) ==
    IF rate > 0 THEN [n EXCEPT !.learningRate = rate] ELSE n

setLearningRate(n, rate) == [n EXCEPT !.learningRate = rate]

\* The frame of a running predict() / train() call: the network (`this'), the
\* heap, the locals assigned so far, and whether a statement has thrown.
\* `partial': the statement that threw was an in-place call that had already
\* written to its receiver.
frame(h, n, input_array, target_array) ==
    [ok |-> TRUE, err |-> "", partial |-> FALSE, heap |-> h, this |-> n,
     inputs |-> fromArray(input_array), targets |-> fromArray(target_array),
     hidden |-> NoMatrix, outputs |-> NoMatrix, output_errors |-> NoMatrix,
     gradients |-> NoMatrix, hidden_t |-> NoMatrix, weight_ho_deltas |-> NoMatrix,
     who_t |-> NoMatrix, hidden_errors |-> NoMatrix, hidden_gradient |-> NoMatrix,
     inputs_t |-> NoMatrix, weight_ih_deltas |-> NoMatrix]

\* const local = <static call r>
const(f, local, r) ==
    IF ~f.ok THEN f
    ELSE IF r.ok THEN [f EXCEPT ![local] = r.m]
    ELSE [f EXCEPT !.ok = FALSE, !.err = r.err]

\* local.<in-place call r>
onLocal(f, local, r) ==
    IF ~f.ok THEN f
    ELSE IF r.ok THEN [f EXCEPT ![local] = r.m]
    ELSE [f EXCEPT !.ok = FALSE, !.err = r.err, ![local] = r.m,
                   !.partial = (r.m # f[local])]

\* this.field.<in-place call r>
onField(f, field, r) ==
    IF ~f.ok THEN f
    ELSE IF r.ok THEN [f EXCEPT !.heap = store(f.heap, f.this[field], r.m)]
    ELSE [f EXCEPT !.ok = FALSE, !.err = r.err,
                   !.heap = store(f.heap, f.this[field], r.m),
                   !.partial = (r.m.data # f.heap[f.this[field].data])]

\* this.field as the call reads it
field(f, name) == deref(f.heap, f.this[name])

NoTrace == [hidden |-> << >>, outputs |-> << >>, output_errors |-> << >>,
            gradients |-> << >>, hidden_errors |-> << >>, hidden_gradient |-> << >>]

\* what the caller sees of a finished call
outcome(f, out, trace) ==
    [ok |-> f.ok, err |-> f.err, heap |-> f.heap, partial |-> f.partial,
     out |-> IF f.ok THEN out ELSE << >>,
     trace |-> IF f.ok THEN trace ELSE NoTrace]

\* the statements of predict(), in order
predict_hidden(f) == const(f, "hidden", Matrix_multiply(field(f, "weights_ih"), f.inputs))
\* hidden.add(this.bias_h) with receiver and argument exchanged
predict_bias_h_add(f) == onField(f, "bias_h", add(field(f, "bias_h"), f.hidden))
predict_hidden_add(f) == onLocal(f, "hidden", add(f.hidden, field(f, "bias_h")))
predict_hidden_map(f) == onLocal(f, "hidden", map(f.hidden, "sigmoid"))
predict_output(f) == const(f, "outputs", Matrix_multiply(field(f, "weights_ho"), f.hidden))
predict_output_add(f) == onLocal(f, "outputs", add(f.outputs, field(f, "bias_o")))
predict_output_map(f) == onLocal(f, "outputs", map(f.outputs, "sigmoid"))

predict_body(f) ==
    predict_output_map(predict_output_add(predict_output(
    predict_hidden_map(predict_hidden_add(predict_hidden(f))))))

predict_return(f) == outcome(f, toArray(f.outputs), NoTrace)

predict(h, n, input_array) == predict_return(predict_body(frame(h, n, input_array, << >>)))

\* the statements of train(), in order
\* Feedforward
train_hidden(f) == const(f, "hidden", Matrix_multiply(field(f, "weights_ih"), f.inputs))
train_hidden_add(f) == onLocal(f, "hidden", add(f.hidden, field(f, "bias_h")))
train_hidden_map(f) == onLocal(f, "hidden", map(f.hidden, "sigmoid"))
train_outputs(f) == const(f, "outputs", Matrix_multiply(field(f, "weights_ho"), f.hidden))
train_outputs_add(f) == onLocal(f, "outputs", add(f.outputs, field(f, "bias_o")))
train_outputs_map(f) == onLocal(f, "outputs", map(f.outputs, "sigmoid"))
\* Calculate output errors
train_output_errors(f) == const(f, "output_errors", subtract(f.targets, f.outputs))
\* Calculate output gradient
train_gradients(f) == const(f, "gradients", Matrix_map(f.outputs, "dsigmoid"))
train_gradients_errors(f) == onLocal(f, "gradients", multiply(f.gradients, f.output_errors))
train_gradients_rate(f) ==
    onLocal(f, "gradients", multiply_scalar(f.gradients, f.this.learningRate))
\* Calculate deltas for hidden-to-output weights
train_hidden_t(f) == const(f, "hidden_t", transpose(f.hidden))
train_weight_ho_deltas(f) ==
    const(f, "weight_ho_deltas", Matrix_multiply(f.gradients, f.hidden_t))
\* Adjust the weights and biases
train_adjust_weights_ho(f) ==
    onField(f, "weights_ho", add(field(f, "weights_ho"), f.weight_ho_deltas))
\* train() without `this.bias_o.add(gradients)'
train_skip_bias_o(f) == f
train_adjust_bias_o(f) == onField(f, "bias_o", add(field(f, "bias_o"), f.gradients))
\* Calculate hidden layer errors
train_who_t(f) == const(f, "who_t", transpose(field(f, "weights_ho")))
train_hidden_errors(f) ==
    const(f, "hidden_errors", Matrix_multiply(f.who_t, f.output_errors))
\* Calculate hidden gradient
train_hidden_gradient(f) == const(f, "hidden_gradient", Matrix_map(f.hidden, "dsigmoid"))
train_hidden_gradient_errors(f) ==
    onLocal(f, "hidden_gradient", multiply(f.hidden_gradient, f.hidden_errors))
train_hidden_gradient_rate(f) ==
    onLocal(f, "hidden_gradient", multiply_scalar(f.hidden_gradient, f.this.learningRate))
\* Calculate deltas for input-to-hidden weights
train_inputs_t(f) == const(f, "inputs_t", transpose(f.inputs))
train_weight_ih_deltas(f) ==
    const(f, "weight_ih_deltas", Matrix_multiply(f.hidden_gradient, f.inputs_t))
\* Adjust the weights and biases
train_adjust_weights_ih(f) ==
    onField(f, "weights_ih", add(field(f, "weights_ih"), f.weight_ih_deltas))
train_adjust_bias_h(f) == onField(f, "bias_h", add(field(f, "bias_h"), f.hidden_gradient))

train_feedforward(f) ==
    train_outputs_map(train_outputs_add(train_outputs(
    train_hidden_map(train_hidden_add(train_hidden(f))))))

\* ... up to the deltas for the hidden-to-output weights
train_output_deltas(f) ==
    train_weight_ho_deltas(train_hidden_t(
    train_gradients_rate(train_gradients_errors(train_gradients(
    train_output_errors(f))))))

\* the rest of train() with the hidden layer's error computed before the
\* output layer is adjusted, as in the textbook
train_textbook_order(f) ==
    train_adjust_bias_h(train_adjust_weights_ih(
    train_weight_ih_deltas(train_inputs_t(
    train_hidden_gradient_rate(train_hidden_gradient_errors(train_hidden_gradient(
    train_adjust_bias_o(train_adjust_weights_ho(
    train_hidden_errors(train_who_t(f)))))))))))

\* ... the rest: the output layer is adjusted, then the hidden layer's error
\* is computed and the hidden layer adjusted
train_adjust(f) ==
    train_adjust_bias_h(train_adjust_weights_ih(
    train_weight_ih_deltas(train_inputs_t(
    train_hidden_gradient_rate(train_hidden_gradient_errors(train_hidden_gradient(
    train_hidden_errors(train_who_t(
    train_adjust_bias_o(train_adjust_weights_ho(f)))))))))))

train_return(f) ==
    outcome(f, << >>,
            [hidden |-> toArray(f.hidden), outputs |-> toArray(f.outputs),
             output_errors |-> toArray(f.output_errors),
             gradients |-> toArray(f.gradients),
             hidden_errors |-> toArray(f.hidden_errors),
             hidden_gradient |-> toArray(f.hidden_gradient)])

train(h, n, input_array, target_array) ==
    train_return(train_adjust(train_output_deltas(train_feedforward(
        frame(h, n, input_array, target_array)))))

\* serialize(): the snapshot object.  Its four grids are the network's own
\* data arrays (the same addresses); learningRate and the sizes are numbers.
serialize(n) ==
    [inputNodes |-> n.inputNodes,
     hiddenNodes |-> n.hiddenNodes,
     outputNodes |-> n.outputNodes,
     weights_ih |-> n.weights_ih.data,
     weights_ho |-> n.weights_ho.data,
     bias_h |-> n.bias_h.data,
     bias_o |-> n.bias_o.data,
     learningRate |-> n.learningRate]

\* deserialize(data) that forgets to restore the learning rate
deserialize_keeps_rate(n, data) ==
    [inputNodes |-> data.inputNodes,
     hiddenNodes |-> data.hiddenNodes,
     outputNodes |-> data.outputNodes,
     learningRate |-> n.learningRate,
     weights_ih |-> [rows |-> data.hiddenNodes, cols |-> data.inputNodes,
                     data |-> data.weights_ih],
     weights_ho |-> [rows |-> data.outputNodes, cols |-> data.hiddenNodes,
                     data |-> data.weights_ho],
     bias_h |-> [rows |-> data.hiddenNodes, cols |-> 1, data |-> data.bias_h],
     bias_o |-> [rows |-> data.outputNodes, cols |-> 1, data |-> data.bias_o]]

\* deserialize(data) with the sizes of weights_ho exchanged
deserialize_swapped(n, data) ==
    [inputNodes |-> data.inputNodes,
     hiddenNodes |-> data.hiddenNodes,
     outputNodes |-> data.outputNodes,
     learningRate |-> data.learningRate,
     weights_ih |-> [rows |-> data.hiddenNodes, cols |-> data.inputNodes,
                     data |-> data.weights_ih],
     weights_ho |-> [rows |-> data.hiddenNodes, cols |-> data.outputNodes,
                     data |-> data.weights_ho],
     bias_h |-> [rows |-> data.hiddenNodes, cols |-> 1, data |-> data.bias_h],
     bias_o |-> [rows |-> data.outputNodes, cols |-> 1, data |-> data.bias_o]]

\* deserialize(data): each matrix is a new Matrix of the sizes the snapshot
\* names, whose data is then replaced by the snapshot's grid (the same address).
deserialize(n, data) ==
    [inputNodes |-> data.inputNodes,
     hiddenNodes |-> data.hiddenNodes,
     outputNodes |-> data.outputNodes,
     learningRate |-> data.learningRate,
     weights_ih |-> [rows |-> data.hiddenNodes, cols |-> data.inputNodes,
                     data |-> data.weights_ih],
     weights_ho |-> [rows |-> data.outputNodes, cols |-> data.hiddenNodes,
                     data |-> data.weights_ho],
     bias_h |-> [rows |-> data.hiddenNodes, cols |-> 1, data |-> data.bias_h],
     bias_o |-> [rows |-> data.outputNodes, cols |-> 1, data |-> data.bias_o]]

\* --------------------------------------------------------------------- App
\* The XOR App component.  React is modelled by what the component relies on:
\* a handler or callback runs to its end; the state updates it queues are
\* applied by the next render; a render that changes a dependency of a
\* memoized callback makes a new callback, and one that changes a dependency
\* of an effect queues the effect (its cleanup first), which runs after the
\* render and before the next one.
\*
\* The world `w' of a handler: [app, heap, net] with net = networkRef.current.
\* app.st is the state of the last render, app.nx the state with the queued
\* updates applied.
xorData ==
    << [inputs |-> << 0, 0 >>, targets |-> << 0 >>],
       [inputs |-> << 0, Scale >>, targets |-> << Scale >>],
       [inputs |-> << Scale, 0 >>, targets |-> << Scale >>],
       [inputs |-> << Scale, Scale >>, targets |-> << 0 >>] >>

\* iterations per frame
BatchSize == 10

\* the states that hold a new object after every set
ObjectStates == {"networkData", "predictions"}

\* setX(value)
setState(w, name, value) ==
    [w EXCEPT !.app.nx[name] = value,
              !.app.queued = @ \/ name \in ObjectStates \/ w.app.nx[name] # value]

\* requestAnimationFrame(trainLoop), for the trainLoop that closed over `epoch',
\* without keeping the id it returns
requestOnly(w, epoch) ==
    [w EXCEPT !.app.pending = @ \cup {[id |-> w.app.nextId, epoch |-> epoch]},
              !.app.nextId = @ + 1]

\* animationFrameId.current = requestAnimationFrame(trainLoop)
request(w, epoch) ==
    [w EXCEPT !.app.pending = @ \cup {[id |-> w.app.nextId, epoch |-> epoch]},
              !.app.animationFrameId = w.app.nextId,
              !.app.nextId = @ + 1]

\* a cleanup that leaves the requested frame in place
cancel_skipped(w) == w

\* if (animationFrameId.current) cancelAnimationFrame(animationFrameId.current)
cancel(w) ==
    IF w.app.animationFrameId = 0 THEN w
    ELSE [w EXCEPT !.app.pending = {p \in @ : p.id # w.app.animationFrameId},
                   !.app.cancelled = @ \cup {p.id : p \in {q \in w.app.pending :
                                                q.id = w.app.animationFrameId}}]

updatePredictions(w) ==
    setState(w, "predictions",
             [i \in 1..Len(xorData) |-> predict(w.heap, w.net, xorData[i].inputs).out])

\* networkRef.current = c.net, for a network c just constructed
setNetwork(w, c) == [w EXCEPT !.heap = c.heap, !.net = c.net]

\* networkRef.current.setLearningRate(rate)
setNetworkRate(w, rate) == [w EXCEPT !.net = setLearningRate(@, rate)]

\* setNetworkData(networkRef.current.serialize())
setNetworkData(w) == setState(w, "networkData", serialize(w.net))

\* initializeNetwork, made by a render whose learningRate was `learningRate'
initializeNetwork(w, learningRate, seed) ==
    updatePredictions(setState(setState(setNetworkData(setNetworkRate(
        setNetwork(w, NeuralNetwork(w.heap, 2, 4, 1, seed)), learningRate)),
        "epoch", 0), "error", 0))

\* Math.random(): a value in [0, 1), draw i of outcome `seed' of the random source
Math_random(seed, i) == (random(seed, i, 0) + Scale) \div 2

\* networkRef.current.train(data.inputs, data.targets)
trainLoop_train(w, data) ==
    [w EXCEPT !.heap = train(w.heap, w.net, data.inputs, data.targets).heap,
              !.app.trains = @ + 1]

\* for (let i = 0; i < 10; i++) { data = xorData[floor(random * length)]; train }
RECURSIVE trainBatch(_, _, _)
trainBatch(w, seed, i) ==
    IF i = 0 THEN w
    ELSE trainLoop_train(trainBatch(w, seed, i - 1),
                         xorData[((Math_random(seed, i) * Len(xorData)) \div Scale) + 1])

\* err * err
squared(err) == num_mul(err, err)

\* currentError after the first k entries of xorData
RECURSIVE currentError(_, _)
currentError(w, k) ==
    IF k = 0 THEN 0
    ELSE num_add(currentError(w, k - 1),
                 squared(num_sub(Head(xorData[k].targets),
                                 Head(predict(w.heap, w.net, xorData[k].inputs).out))))

\* setEpoch(prev => prev + 10)
trainLoop_epoch(w) == setState(w, "epoch", w.app.nx.epoch + 10)

\* if (epoch % 100 === 0) { setError; updatePredictions; setNetworkData }
trainLoop_report(w, epoch) ==
    IF epoch % 100 = 0
    THEN setNetworkData(updatePredictions(setState(w,
            "error", currentError(w, Len(xorData)) \div Len(xorData))))
    ELSE w

\* trainLoop, made by a render whose epoch was `epoch'
trainLoop(w, epoch, seed) ==
    request(trainLoop_report(trainLoop_epoch(trainBatch(w, seed, BatchSize)), epoch),
            epoch)

\* the cleanup the effect on [isRunning, trainLoop] returned at its last run
runEffect_cleanup(w) == IF w.app.mounted THEN cancel(w) ELSE w

\* the body of the effect on [isRunning, trainLoop]
runEffect_body(w) ==
    IF w.app.st.isRunning THEN request(w, w.app.st.epoch) ELSE cancel(w)

runEffect(w) == runEffect_body(runEffect_cleanup(w))

\* if (!isRunning) { setNetworkData; updatePredictions }, isRunning being
\* that of the render which made the handler
handleStartStop_show(w, isRunning) ==
    IF ~isRunning THEN updatePredictions(setNetworkData(w)) ELSE w

handleStartStop(w) ==
    handleStartStop_show(setState(w, "isRunning", ~w.app.st.isRunning),
                         w.app.st.isRunning)

handleLearningRateChange(w, newRate) ==
    setNetworkRate(setState(w, "learningRate", newRate), newRate)

\* JSON.stringify / JSON.parse of a number: NaN is written as null, which
\* arithmetic reads as 0
json_number(x) == IF IsNaN(x) THEN 0 ELSE x

json_grid(g) == [i \in 1..Len(g) |-> [j \in 1..Len(g[i]) |-> json_number(g[i][j])]]

\* JSON.stringify(serialized): the text holds the entries, not the arrays
JSON_stringify(h, data) ==
    [data EXCEPT !.weights_ih = json_grid(h[@]), !.weights_ho = json_grid(h[@]),
                 !.bias_h = json_grid(h[@]), !.bias_o = json_grid(h[@])]

\* JSON.parse(savedModel): a new object with four new arrays, in the heap
JSON_parse(h, text) ==
    [heap |-> h \o << text.weights_ih, text.weights_ho, text.bias_h, text.bias_o >>,
     data |-> [text EXCEPT !.weights_ih = Len(h) + 1, !.weights_ho = Len(h) + 2,
                           !.bias_h = Len(h) + 3, !.bias_o = Len(h) + 4]]

\* localStorage without the item
NoItem == [inputNodes |-> 0]

handleSaveModel(w) ==
    [w EXCEPT !.app.localStorage = JSON_stringify(w.heap, serialize(w.net))]

\* networkRef.current.deserialize(serialized), for the object `parsed.data'
\* in the heap `parsed.heap'
handleLoadModel_deserialize(w, parsed) ==
    [w EXCEPT !.heap = parsed.heap, !.net = deserialize(@, parsed.data)]

handleLoadModel(w) ==
    IF w.app.localStorage = NoItem THEN w
    ELSE updatePredictions(setState(setNetworkData(
             handleLoadModel_deserialize(w, JSON_parse(w.heap, w.app.localStorage))),
             "learningRate", w.app.localStorage.learningRate))

\* a render: the queued updates become the state; the effects whose
\* dependencies changed are queued.  initializeNetwork depends on
\* [learningRate], trainLoop on [epoch].
render(w) ==
    [w EXCEPT !.app.st = w.app.nx,
              !.app.queued = FALSE,
              !.app.effects =
                  (IF w.app.nx.learningRate # w.app.st.learningRate
                   THEN {"initializeNetwork"} ELSE {})
                  \cup (IF w.app.nx.isRunning # w.app.st.isRunning
                           \/ w.app.nx.epoch # w.app.st.epoch
                        THEN {"trainLoop"} ELSE {})]

\* the effect on [initializeNetwork], if queued
runEffects_initializeNetwork(w, seed) ==
    IF "initializeNetwork" \in w.app.effects
    THEN initializeNetwork(w, w.app.st.learningRate, seed) ELSE w

\* the effect on [isRunning, trainLoop], if queued
runEffects_trainLoop(w) ==
    IF "trainLoop" \in w.app.effects THEN runEffect(w) ELSE w

runEffects_done(w) == [w EXCEPT !.app.effects = {}, !.app.mounted = TRUE]

\* the queued effects run, in the order the component declares them
runEffects(w, seed) ==
    runEffects_done(runEffects_trainLoop(runEffects_initializeNetwork(w, seed)))

\* React renders the queued updates and runs the effects of that render
\* before the click returns
flushSync_render(w, seed) == IF w.app.queued THEN runEffects(render(w), seed) ELSE w

\* the end of a click: the updates the handler queued are rendered before
\* anything else runs, after the effects that an earlier render left queued
flushSync(w, seed) ==
    flushSync_render(IF w.app.effects # {} /\ w.app.queued
                     THEN runEffects(w, seed) ELSE w, seed)

\* ------------------------------------------------------------------- state
VARIABLES
    heap,      \* address -> rows: the data arrays that outlive a call
    nets,      \* the NeuralNetwork objects
    snaps,     \* the snapshots the caller holds, each with a copy of what its
               \* grids held when serialize() returned
    last,      \* the last call: its arguments, its outcome, the state before it
    plog,      \* the predict() results since the last train() / deserialize()
    steps,     \* calls made so far
    mulA, mulB, mulOut,  \* operands and result of a Matrix.multiply(a, b) call
    trOut,     \* Matrix.transpose of mulA, and of that result
    mem,       \* two stored operands of a static Matrix operation, its result,
               \* and the row arrays they hold
    app        \* the App component around network 1: its React state, its
               \* refs, the animation frames requested, localStorage

vars == << heap, nets, snaps, last, plog, steps, mulA, mulB, mulOut, trOut, mem, app >>
appVars == << app >>
netVars == << heap, nets, snaps, last, plog, steps >>
mulVars == << mulA, mulB, mulOut, trOut, mem >>

NetIds == {1, 2}

\* the learning rates handed to setLearningRate
Rates == {0 - (Scale \div 2), 0, 2 * Scale}

\* argument vectors
ones(len) == [i \in 1..len |-> Scale]
zeros(len) == [i \in 1..len |-> 0]
alt(len) == [i \in 1..len |-> IF i % 2 = 1 THEN Scale ELSE 0]

\* input arrays handed to predict: one of the right length, one longer, one shorter
PredictInputs(n) ==
    {alt(n.inputNodes), ones(n.inputNodes + 1), ones(n.inputNodes - 1)}

\* (input, target) pairs handed to train: two of the right lengths, one with a
\* longer input, one with a shorter target
TrainPairs(n) ==
    {<< ones(n.inputNodes), zeros(n.outputNodes) >>,
     << alt(n.inputNodes), alt(n.outputNodes) >>,
     << ones(n.inputNodes + 1), zeros(n.outputNodes) >>,
     << alt(n.inputNodes), ones(n.outputNodes - 1) >>}

\* and with a shorter input, a longer target
TrainPairsAll(n) ==
    TrainPairs(n) \cup {<< ones(n.inputNodes - 1), alt(n.outputNodes) >>,
                        << ones(n.inputNodes), ones(n.outputNodes + 1) >>}

\* the call made just before a train(), when it set the rate of the same
\* network or restored it: which call, with which argument
NoPrev == [op |-> "", net |-> 0, input |-> << >>, snap |-> 0]

NoCall == [op |-> "new", net |-> 0, ok |-> TRUE, err |-> "", input |-> << >>,
           target |-> << >>, out |-> << >>, partial |-> FALSE, trace |-> NoTrace,
           snap |-> 0, fresh |-> FALSE, src |-> 0, again |-> FALSE, preNets |-> << >>,
           preHeap |-> << >>, prev |-> NoPrev]

Called(c) == [c EXCEPT !.preNets = nets, !.preHeap = heap]

\* the contents of a snapshot's four grids in heap h
grids(h, data) ==
    [weights_ih |-> h[data.weights_ih], weights_ho |-> h[data.weights_ho],
     bias_h |-> h[data.bias_h], bias_o |-> h[data.bias_o]]

\* the two networks as constructed, for outcome `seed' of the random source
NewNets(seed) ==
    LET c1 == NeuralNetwork(<< >>, 2, 4, 1, seed)
        c2 == NeuralNetwork(c1.heap, 1, 2, 2, seed + 1)
    IN  /\ heap = c2.heap
        /\ nets = [id \in NetIds |-> IF id = 1 THEN c1.net ELSE c2.net]
        /\ snaps = << >>
        /\ last = NoCall
        /\ plog = {}
        /\ steps = 0

InitNets == \E seed \in 1..MaxSeed : NewNets(seed)

\* the App before its first effects ran: useState(0.1), useState(false),
\* useState(0), useState(0), useState(null), useState([])
NoApp ==
    [st |-> [learningRate |-> Scale \div 10, isRunning |-> FALSE, epoch |-> 0,
             error |-> 0, networkData |-> NoItem, predictions |-> << >>],
     nx |-> [learningRate |-> Scale \div 10, isRunning |-> FALSE, epoch |-> 0,
             error |-> 0, networkData |-> NoItem, predictions |-> << >>],
     queued |-> FALSE,
     effects |-> {"initializeNetwork", "trainLoop"},
     mounted |-> FALSE,
     animationFrameId |-> 0,
     pending |-> {},
     nextId |-> 1,
     cancelled |-> {},
     trains |-> 0,
     localStorage |-> NoItem,
     clicks |-> 0,
     frames |-> 0]

\* no stored operands
NoMem == [cells |-> << >>, a |-> NoMatrix, b |-> NoMatrix, a0 |-> NoMatrix,
          b0 |-> NoMatrix, op |-> "", r |-> Ok(NoMatrix), r0 |-> NoMatrix,
          then |-> ""]

Init ==
    /\ InitNets
    /\ app = NoApp
    /\ mulA = NoMatrix
    /\ mulB = NoMatrix
    /\ mulOut = [called |-> FALSE, r |-> Ok(NoMatrix)]
    /\ trOut = [called |-> FALSE, t |-> Ok(NoMatrix), tt |-> Ok(NoMatrix)]
    /\ mem = NoMem

\* ----------------------------------------------------------------- actions
SetLearningRate(id, rate) ==
    /\ steps < MaxSteps
    /\ nets' = [nets EXCEPT ![id] = setLearningRate(@, rate)]
    /\ last' = Called([NoCall EXCEPT !.op = "setLearningRate", !.net = id,
                                     !.input = << rate >>])
    /\ steps' = steps + 1
    /\ UNCHANGED << heap, snaps, plog, mulVars, appVars >>

Predict(id, input) ==
    /\ steps < MaxSteps
    /\ LET r == predict(heap, nets[id], input)
       IN  /\ heap' = r.heap
           /\ last' = Called([NoCall EXCEPT !.op = "predict", !.net = id,
                                !.input = input, !.ok = r.ok, !.err = r.err,
                                !.out = r.out, !.partial = r.partial,
                                !.again = (\E e \in plog : e.net = id /\ e.input = input)])
           /\ plog' = IF r.ok
                      THEN plog \cup {[net |-> id, input |-> input, out |-> r.out]}
                      ELSE plog
    /\ steps' = steps + 1
    /\ UNCHANGED << nets, snaps, mulVars, appVars >>

Train(id, input, target) ==
    /\ steps < MaxSteps
    /\ LET r == train(heap, nets[id], input, target)
       IN  /\ heap' = r.heap
           /\ last' = Called([NoCall EXCEPT !.op = "train", !.net = id,
                                !.input = input, !.target = target, !.ok = r.ok,
                                !.err = r.err, !.partial = r.partial,
                                !.trace = r.trace,
                                !.prev = IF last.net = id
                                            /\ last.op \in {"setLearningRate", "deserialize"}
                                         THEN [op |-> last.op, net |-> last.net,
                                               input |-> last.input, snap |-> last.snap]
                                         ELSE NoPrev])
    /\ plog' = {}
    /\ steps' = steps + 1
    /\ UNCHANGED << nets, snaps, mulVars, appVars >>

Serialize(id) ==
    /\ steps < MaxSteps
    /\ Len(snaps) < MaxSnaps
    /\ LET data == serialize(nets[id])
       IN  snaps' = Append(snaps, [data |-> data, at |-> grids(heap, data)])
    /\ last' = Called([NoCall EXCEPT !.op = "serialize", !.net = id,
                                     !.snap = Len(snaps) + 1])
    /\ steps' = steps + 1
    /\ UNCHANGED << heap, nets, plog, mulVars, appVars >>

\* `fresh': the snapshot is the one the call just before returned, by network `src'
Deserialize(id, k) ==
    /\ steps < MaxSteps
    /\ nets' = [nets EXCEPT ![id] = deserialize(@, snaps[k].data)]
    /\ last' = Called([NoCall EXCEPT !.op = "deserialize", !.net = id, !.snap = k,
                          !.fresh = (last.op = "serialize" /\ last.snap = k),
                          !.src = IF last.op = "serialize" /\ last.snap = k
                                  THEN last.net ELSE 0])
    /\ plog' = {}
    /\ steps' = steps + 1
    /\ UNCHANGED << heap, snaps, mulVars, appVars >>

\* JSON.parse of a stored model, then deserialize(): the parsed object is new,
\* so its four grids are new arrays.  The object names the sizes 2, 2, 1; the
\* grid of matrix `which' has one row or one column fewer or more than they imply
\* (kind "same": every grid has the implied shape).
ForeignKinds == {"same", "fewerRows", "moreRows", "fewerCols", "moreCols"}
MatrixNames == {"weights_ih", "weights_ho", "bias_h", "bias_o"}

foreignGrid(name, rows, cols, which, kind, stream) ==
    LET r == IF name # which THEN rows
             ELSE IF kind = "fewerRows" THEN rows - 1
             ELSE IF kind = "moreRows" THEN rows + 1 ELSE rows
        c == IF name # which THEN cols
             ELSE IF kind = "fewerCols" THEN cols - 1
             ELSE IF kind = "moreCols" THEN cols + 1 ELSE cols
    IN  randomize(Matrix(r, c), 1, stream).data

LoadModel(id, which, kind) ==
    /\ steps = 0
    /\ LET at == Len(heap)
           data == [inputNodes |-> 2, hiddenNodes |-> 2, outputNodes |-> 1,
                    weights_ih |-> at + 1, weights_ho |-> at + 2,
                    bias_h |-> at + 3, bias_o |-> at + 4,
                    learningRate |-> 2 * Scale]
       IN  /\ heap' = heap \o << foreignGrid("weights_ih", 2, 2, which, kind, 0),
                                foreignGrid("weights_ho", 1, 2, which, kind, 1),
                                foreignGrid("bias_h", 2, 1, which, kind, 2),
                                foreignGrid("bias_o", 1, 1, which, kind, 3) >>
           /\ nets' = [nets EXCEPT ![id] = deserialize(@, data)]
    /\ last' = Called([NoCall EXCEPT !.op = "deserialize", !.net = id,
                                     !.input = << which, kind >>])
    /\ plog' = {}
    /\ steps' = steps + 1
    /\ UNCHANGED << snaps, mulVars, appVars >>

\* Matrix.multiply(a, b) on two matrices
MultiplyCall ==
    /\ ~mulOut.called
    /\ mulOut' = [called |-> TRUE, r |-> Matrix_multiply(mulA, mulB)]
    /\ UNCHANGED << netVars, appVars, mulA, mulB, trOut, mem >>

\* t = Matrix.transpose(mulA); tt = Matrix.transpose(t)
TransposeCall ==
    /\ ~trOut.called
    /\ LET t == transpose(mulA)
       IN  trOut' = [called |-> TRUE, t |-> t, tt |-> transpose(t.m)]
    /\ UNCHANGED << netVars, appVars, mulA, mulB, mulOut, mem >>

\* r = Matrix.op(a, b) on the stored operands
StaticCall(op) ==
    /\ mem.op = ""
    /\ LET c == staticCall(mem.cells, op, mem.a, mem.b)
       IN  mem' = [mem EXCEPT !.cells = c.cells, !.op = op, !.r = c.r,
                              !.r0 = IF c.r.ok THEN held(c.cells, c.r.m) ELSE NoMatrix]
    /\ UNCHANGED << netVars, appVars, mulA, mulB, mulOut, trOut >>

\* r.op(n), in place, on the result of the static operation; n is the
\* result itself or the first operand
InPlaceCall(op, n) ==
    /\ mem.op # ""
    /\ mem.r.ok
    /\ mem.then = ""
    /\ mem' = [mem EXCEPT !.cells = inPlaceCall(mem.cells, op, mem.r.m, n),
                          !.then = op]
    /\ UNCHANGED << netVars, appVars, mulA, mulB, mulOut, trOut >>

\* The App's handlers act on network 1 (networkRef.current).
World == [app |-> app, heap |-> heap, net |-> nets[1]]

\* what a handler leaves; `last' names the last click or frame, with the
\* networks and the epoch shown before it
Done(w, op, clicks, frames) ==
    /\ \E left \in {w} :
           /\ app' = [left.app EXCEPT !.clicks = @ + clicks, !.frames = @ + frames]
           /\ heap' = left.heap
           /\ nets' = [nets EXCEPT ![1] = left.net]
    /\ last' = IF clicks + frames = 0 THEN last
               ELSE Called([NoCall EXCEPT !.op = op, !.net = 1,
                                          !.input = << app.st.epoch >>])
    /\ UNCHANGED << snaps, plog, steps, mulVars >>

\* the learning rates the slider can be moved to
SliderRates == {Scale \div 2}

\* the clicks, which the page takes once the effects of the first render have
\* run; `seed' is the outcome of the random source for an initializeNetwork
\* effect that runs within the click
HandleStartStop(seed) ==
    /\ app.mounted
    /\ app.clicks < MaxClicks
    /\ Done(flushSync(handleStartStop(World), seed), "handleStartStop", 1, 0)

\* a click on Reset Network
ResetNetwork(seed, new) ==
    /\ app.mounted
    /\ app.clicks < MaxClicks
    /\ Done(flushSync(initializeNetwork(World, app.st.learningRate, new), seed),
            "initializeNetwork", 1, 0)

HandleLearningRateChange(seed, newRate) ==
    /\ app.mounted
    /\ app.clicks < MaxClicks
    /\ Done(flushSync(handleLearningRateChange(World, newRate), seed),
            "handleLearningRateChange", 1, 0)

HandleSaveModel ==
    /\ app.mounted
    /\ app.clicks < MaxClicks
    /\ Done(handleSaveModel(World), "handleSaveModel", 1, 0)

HandleLoadModel(seed) ==
    /\ app.mounted
    /\ app.clicks < MaxClicks
    /\ Done(flushSync(handleLoadModel(World), seed), "handleLoadModel", 1, 0)

\* the outcomes of the random source followed for the ten draws of a frame
FrameSeeds == {1}

\* the browser runs a requested animation-frame callback
Frame(seed) ==
    /\ app.frames < MaxFrames
    /\ \E p \in app.pending :
           Done(trainLoop([World EXCEPT !.app.pending = @ \ {p}], p.epoch, seed),
                "trainLoop", 0, 1)

\* React renders the component after a frame callback: there are queued
\* updates, and the effects of the last render have run
Render ==
    /\ app.queued
    /\ app.effects = {}
    /\ Done(render(World), "render", 0, 0)

\* React runs the effects the last render queued
Effects(seed) ==
    /\ app.effects # {}
    /\ Done(runEffects(World, seed), "effects", 0, 0)

\* -------------------------------------------------------- specifications
\* the two networks under every call of the interface
Next ==
    \/ \E id \in NetIds, rate \in Rates : SetLearningRate(id, rate)
    \/ \E id \in NetIds : \E input \in PredictInputs(nets[id]) : Predict(id, input)
    \/ \E id \in NetIds : \E p \in TrainPairs(nets[id]) : Train(id, p[1], p[2])
    \/ \E id \in NetIds : Serialize(id)
    \/ \E id \in NetIds, k \in 1..Len(snaps) : Deserialize(id, k)

Spec == Init /\ [][Next]_vars

\* network 1 restored from a stored model, consistent or not, then used
NextLoad ==
    \/ \E which \in MatrixNames, kind \in ForeignKinds : LoadModel(1, which, kind)
    \/ \E rate \in Rates : SetLearningRate(1, rate)
    \/ \E input \in PredictInputs(nets[1]) : Predict(1, input)
    \/ \E p \in TrainPairsAll(nets[1]) : Train(1, p[1], p[2])

SpecLoad == Init /\ [][NextLoad]_vars

\* the static Matrix operations as functions of their operands
matrices == {randomize(Matrix(r, c), seed, 0) :
                r \in 1..MaxDim, c \in 1..MaxDim, seed \in 1..MaxSeed}

InitMatrix ==
    /\ InitNets
    /\ app = NoApp
    /\ mulA \in matrices
    /\ mulB \in matrices
    /\ mulOut = [called |-> FALSE, r |-> Ok(NoMatrix)]
    /\ trOut = [called |-> FALSE, t |-> Ok(NoMatrix), tt |-> Ok(NoMatrix)]
    /\ mem = NoMem

NextMatrix ==
    \/ MultiplyCall
    \/ TransposeCall

SpecMatrix == InitMatrix /\ [][NextMatrix]_vars

\* two stored operands: two matrices, or one matrix given twice
stored(ma, mb, same) ==
    LET pa == place(<< >>, ma)
        pb == IF same THEN pa ELSE place(pa.cells, mb)
    IN  [NoMem EXCEPT !.cells = pb.cells, !.a = pa.obj, !.b = pb.obj,
                      !.a0 = ma, !.b0 = IF same THEN ma ELSE mb]

\* the static operations on stored operands, and an in-place operation on
\* what they return
InitStatic ==
    /\ NewNets(1)
    /\ app = NoApp
    /\ mulA = NoMatrix
    /\ mulB = NoMatrix
    /\ mulOut = [called |-> FALSE, r |-> Ok(NoMatrix)]
    /\ trOut = [called |-> FALSE, t |-> Ok(NoMatrix), tt |-> Ok(NoMatrix)]
    /\ \E ma \in matrices, mb \in matrices, same \in BOOLEAN :
           mem = stored(ma, mb, same)

NextStatic ==
    \/ \E op \in StaticOps : StaticCall(op)
    \/ \E op \in InPlaceOps : \E n \in {mem.r.m, mem.a} : InPlaceCall(op, n)

SpecStatic == InitStatic /\ [][NextStatic]_vars

\* the App from its first render on: clicks, animation frames, renders and
\* effects in every order.  localStorage is empty or holds the model an
\* earlier session saved.
savedBefore(rate) ==
    LET c == NeuralNetwork(<< >>, 2, 4, 1, 0)
    IN  JSON_stringify(c.heap, serialize(setLearningRate(c.net, rate)))

InitApp ==
    /\ NewNets(1)
    /\ mulA = NoMatrix
    /\ mulB = NoMatrix
    /\ mulOut = [called |-> FALSE, r |-> Ok(NoMatrix)]
    /\ trOut = [called |-> FALSE, t |-> Ok(NoMatrix), tt |-> Ok(NoMatrix)]
    /\ mem = NoMem
    /\ \E item \in {NoItem, savedBefore(Scale \div 2)} :
           app = [NoApp EXCEPT !.localStorage = item]

\* the outcomes of the random source that matter to the next step: all of
\* them when a queued effect is to make a new network, else any one
EffectSeeds == IF "initializeNetwork" \in app.effects THEN 1..MaxSeed ELSE {1}

NextApp ==
    \/ \E seed \in EffectSeeds : HandleStartStop(seed)
    \/ \E seed \in EffectSeeds, new \in 1..MaxSeed : ResetNetwork(seed, new)
    \/ \E seed \in 1..MaxSeed, newRate \in SliderRates :
           HandleLearningRateChange(seed, newRate)
    \/ HandleSaveModel
    \/ \E seed \in 1..MaxSeed : HandleLoadModel(seed)
    \/ \E seed \in FrameSeeds : Frame(seed)
    \/ Render
    \/ \E seed \in EffectSeeds : Effects(seed)

SpecApp == InitApp /\ [][NextApp]_vars
\* ------------------------------------------------------------------ claims
\* C1 (as claimed): a snapshot returned by serialize() keeps, whatever is
\* later done to the network, the grids it had when serialize() returned
\* (its learningRate is a number in the snapshot object, which no call writes).
C1_SnapshotIndependent ==
    \A k \in 1..Len(snaps) : grids(heap, snaps[k].data) = snaps[k].at

\* the fields of network d equal those of network n, matrices by content
sameNetwork(hd, d, hn, n) ==
    /\ d.inputNodes = n.inputNodes
    /\ d.hiddenNodes = n.hiddenNodes
    /\ d.outputNodes = n.outputNodes
    /\ d.learningRate = n.learningRate
    /\ \A name \in MatrixNames : deref(hd, d[name]) = deref(hn, n[name])

\* C2: deserialize(serialize(n)) on a network yields a network whose
\* topology fields, four matrices and learningRate equal n's, and whose
\* predict() returns what n's returns for every input.
C2_RoundTrip ==
    (last.op = "deserialize" /\ last.fresh) =>
        LET n == last.preNets[last.src]
            d == nets[last.net]
        IN  /\ sameNetwork(heap, d, last.preHeap, n)
            /\ \A input \in PredictInputs(n) :
                    LET rd_ == predict(heap, d, input)
                        rn == predict(last.preHeap, n, input)
                    IN  rd_.ok = rn.ok /\ rd_.out = rn.out

\* C2's case: a network restored from the snapshot another network just
\* returned, that network having a learning rate of its own and other sizes
C2_Witness ==
    /\ last.op = "deserialize"
    /\ last.fresh
    /\ last.src # last.net
    /\ nets[last.net].learningRate # last.preNets[last.net].learningRate
    /\ nets[last.net].hiddenNodes # last.preNets[last.net].hiddenNodes

\* C3: predict() leaves the matrices, the learning rate and the topology
\* fields of every network as they were, and two predict() calls with the same
\* input and no train() / deserialize() between them return the same vector.
C3_PredictReadOnly ==
    /\ last.op = "predict" => (nets = last.preNets /\ heap = last.preHeap)
    /\ \A e1 \in plog, e2 \in plog :
            (e1.net = e2.net /\ e1.input = e2.input) => e1.out = e2.out

\* C3's case: a predict() that returned, repeating an earlier one
C3_Witness == last.op = "predict" /\ last.ok /\ last.again
\* the sum F[1] + ... + F[n]
RECURSIVE Sigma(_, _)
Sigma(F, n) == IF n = 0 THEN 0 ELSE F[n] + Sigma(F, n - 1)

\* x * y * z * w, left to right
product(x, y, z, w) == num_mul(num_mul(num_mul(x, y), z), w)

\* The forward pass written out entry by entry, for network n in heap h:
\* hidden = sigmoid(weights_ih . input + bias_h)
ref_hidden(h, n, input) ==
    [j \in 1..n.hiddenNodes |->
        sigmoid(Sigma([k \in 1..n.inputNodes |->
                          num_mul(h[n.weights_ih.data][j][k], input[k])],
                      n.inputNodes)
                + h[n.bias_h.data][j][1])]

\* output = sigmoid(weights_ho . hidden + bias_o)
ref_output(h, n, hidden) ==
    [i \in 1..n.outputNodes |->
        sigmoid(Sigma([j \in 1..n.hiddenNodes |->
                          num_mul(h[n.weights_ho.data][i][j], hidden[j])],
                      n.hiddenNodes)
                + h[n.bias_o.data][i][1])]

\* outputError = target - output
ref_output_error(h, n, input, target) ==
    LET output == ref_output(h, n, ref_hidden(h, n, input))
    IN  [i \in 1..n.outputNodes |-> target[i] - output[i]]

\* transpose(who) . outputError, for a weights_ho grid `who'
ref_hidden_error(n, who, outputError) ==
    [j \in 1..n.hiddenNodes |->
        Sigma([i \in 1..n.outputNodes |-> num_mul(who[i][j], outputError[i])],
              n.outputNodes)]

\* C4: within one train() call, outputError is target - output of the forward
\* pass on the state before the call, and hiddenError is
\* transpose(weights_ho) . outputError for weights_ho as the call's own output
\* update left it.
C4_HiddenErrorAfterOutputUpdate ==
    (last.op = "train" /\ last.ok) =>
        LET n == last.preNets[last.net]
            outputError == ref_output_error(last.preHeap, n, last.input, last.target)
        IN  /\ last.trace.output_errors = outputError
            /\ last.trace.hidden_errors =
                   ref_hidden_error(n, heap[n.weights_ho.data], outputError)

\* C4's case: a train() whose hiddenError differs from the one the weights_ho
\* of the call's start would give
C4_Witness ==
    /\ last.op = "train"
    /\ last.ok
    /\ LET n == last.preNets[last.net]
       IN  last.trace.hidden_errors #
               ref_hidden_error(n, last.preHeap[n.weights_ho.data],
                                ref_output_error(last.preHeap, n, last.input, last.target))

\* C5: one train(input, target) call is one gradient step: weights_ho and
\* bias_o grow by outputGradient . transpose(hidden) and outputGradient,
\* weights_ih and bias_h by hiddenGradient . transpose(input) and
\* hiddenGradient; learningRate, the topology fields and every other array
\* stay as they were.
C5_OneGradientStep ==
    (last.op = "train" /\ last.ok) =>
        LET n == last.preNets[last.net]
            h == last.preHeap
            hidden == ref_hidden(h, n, last.input)
            output == ref_output(h, n, hidden)
            outputError == [i \in 1..n.outputNodes |-> last.target[i] - output[i]]
            outputGradient ==
                [i \in 1..n.outputNodes |->
                    product(output[i], Scale - output[i], outputError[i], n.learningRate)]
            weights_ho ==
                [i \in 1..n.outputNodes |-> [j \in 1..n.hiddenNodes |->
                    h[n.weights_ho.data][i][j] + num_mul(outputGradient[i], hidden[j])]]
            hiddenError == ref_hidden_error(n, weights_ho, outputError)
            hiddenGradient ==
                [j \in 1..n.hiddenNodes |->
                    product(hidden[j], Scale - hidden[j], hiddenError[j], n.learningRate)]
        IN  /\ nets = last.preNets
            /\ heap[n.weights_ho.data] = weights_ho
            /\ heap[n.bias_o.data] =
                   [i \in 1..n.outputNodes |->
                       << h[n.bias_o.data][i][1] + outputGradient[i] >>]
            /\ heap[n.weights_ih.data] =
                   [j \in 1..n.hiddenNodes |-> [k \in 1..n.inputNodes |->
                       h[n.weights_ih.data][j][k]
                       + num_mul(hiddenGradient[j], last.input[k])]]
            /\ heap[n.bias_h.data] =
                   [j \in 1..n.hiddenNodes |->
                       << h[n.bias_h.data][j][1] + hiddenGradient[j] >>]
            /\ \A a \in 1..Len(heap) :
                   a \notin {n[name].data : name \in MatrixNames} => heap[a] = h[a]

\* C5's case: a train() that changed all four matrices
C5_Witness ==
    /\ last.op = "train"
    /\ last.ok
    /\ \A name \in MatrixNames :
           heap[nets[last.net][name].data] # last.preHeap[nets[last.net][name].data]

\* C6: predict() with an input whose length is not inputNodes, and train()
\* with an input whose length is not inputNodes or a target whose length is
\* not outputNodes, throw and return nothing.
C6_WrongLengthFails ==
    /\ (last.op = "predict"
        /\ Len(last.input) # last.preNets[last.net].inputNodes)
            => (~last.ok /\ last.out = << >>)
    /\ (last.op = "train"
        /\ (Len(last.input) # last.preNets[last.net].inputNodes
            \/ Len(last.target) # last.preNets[last.net].outputNodes))
            => ~last.ok

\* C6's case: a train() with an input that is too long, thrown by the first
\* matrix product
C6_Witness ==
    /\ last.op = "train"
    /\ Len(last.input) > last.preNets[last.net].inputNodes
    /\ ~last.ok
    /\ last.err = "Error"

\* C7 (as claimed): a predict() or train() that throws leaves every matrix it
\* works on, its own locals and the networks' matrices, with the entries it
\* had: no in-place add / multiply has written part of its receiver.
C7_NoPartialFailure ==
    ~last.ok => (~last.partial /\ heap = last.preHeap /\ nets = last.preNets)

\* the rows of matrix m in heap h are m.rows rows of m.cols entries
shapeOK(h, m) ==
    /\ Len(h[m.data]) = m.rows
    /\ \A i \in 1..Len(h[m.data]) : Len(h[m.data][i]) = m.cols

\* C8: in every network weights_ih is hiddenNodes x inputNodes, weights_ho is
\* outputNodes x hiddenNodes, bias_h is hiddenNodes x 1 and bias_o is
\* outputNodes x 1, in the rows / cols fields and in the data grid.
C8_ShapeInvariant ==
    \A id \in NetIds :
        LET n == nets[id]
        IN  /\ n.weights_ih.rows = n.hiddenNodes /\ n.weights_ih.cols = n.inputNodes
            /\ n.weights_ho.rows = n.outputNodes /\ n.weights_ho.cols = n.hiddenNodes
            /\ n.bias_h.rows = n.hiddenNodes /\ n.bias_h.cols = 1
            /\ n.bias_o.rows = n.outputNodes /\ n.bias_o.cols = 1
            /\ \A name \in MatrixNames : shapeOK(heap, n[name])

\* C8's case: a network restored from a snapshot of other sizes than its own
C8_Witness ==
    /\ last.op = "deserialize"
    /\ nets[last.net].inputNodes # last.preNets[last.net].inputNodes
    /\ nets[last.net].outputNodes # last.preNets[last.net].outputNodes

\* some grid of network n is not of the shape its fields imply
inconsistent(h, n) == \E name \in MatrixNames : ~shapeOK(h, n[name])

\* C9 (as claimed): on a network restored from a snapshot whose grids are
\* inconsistent with its sizes, every predict() and train() throws, and
\* changes nothing.
C9_InconsistentSnapshotFails ==
    (last.op \in {"predict", "train"}
     /\ inconsistent(last.preHeap, last.preNets[last.net]))
        => (~last.ok /\ heap = last.preHeap)

\* C10: Matrix.multiply(a, b) with a.cols = b.rows returns the a.rows x b.cols
\* matrix whose entry (i, j) is the sum over k of a[i][k] * b[k][j]; with
\* a.cols # b.rows it throws and returns no matrix.
C10_MatrixProduct ==
    mulOut.called =>
        IF mulA.cols = mulB.rows
        THEN /\ mulOut.r.ok
             /\ mulOut.r.m.rows = mulA.rows
             /\ mulOut.r.m.cols = mulB.cols
             /\ mulOut.r.m.data =
                    [i \in 1..mulA.rows |-> [j \in 1..mulB.cols |->
                        Sigma([k \in 1..mulA.cols |->
                                  num_mul(mulA.data[i][k], mulB.data[k][j])],
                              mulA.cols)]]
        ELSE /\ ~mulOut.r.ok
             /\ mulOut.r.err = "Error"
             /\ mulOut.r.m = NoMatrix

\* C10's case: a product of two matrices that are not square, over two terms
C10_Witness ==
    /\ mulOut.called
    /\ mulOut.r.ok
    /\ mulA.cols = 2
    /\ mulA.rows # mulA.cols
    /\ mulB.cols # mulB.rows

\* the n x n identity matrix
identity(n) ==
    [rows |-> n, cols |-> n,
     data |-> [i \in 1..n |-> [j \in 1..n |-> IF i = j THEN Scale ELSE 0]]]

\* C11: Matrix.transpose(M) is cols x rows with entry (j, i) equal to M's
\* entry (i, j); transposing twice gives back M's shape and entries, and the
\* product of that with the identity of matching size is M.
C11_TransposeInvolution ==
    trOut.called =>
        /\ trOut.t.ok
        /\ trOut.t.m.rows = mulA.cols
        /\ trOut.t.m.cols = mulA.rows
        /\ trOut.t.m.data =
               [j \in 1..mulA.cols |-> [i \in 1..mulA.rows |-> mulA.data[i][j]]]
        /\ trOut.tt.ok
        /\ trOut.tt.m = mulA
        /\ Matrix_multiply(trOut.tt.m, identity(mulA.cols)) = Ok(mulA)

\* C11's case: a matrix that is not square, transposed and transposed back
C11_Witness ==
    /\ trOut.called
    /\ mulA.rows # mulA.cols
    /\ trOut.t.m.data # mulA.data
    /\ trOut.tt.m.data = mulA.data

\* C12: setLearningRate(rate) makes learningRate equal to rate whatever rate
\* is (zero and negative included) and changes nothing else in any network;
\* a train() that follows it scales both gradients by that rate.
C12_SetLearningRate ==
    /\ last.op = "setLearningRate" =>
            /\ nets = [last.preNets EXCEPT ![last.net].learningRate = last.input[1]]
            /\ heap = last.preHeap
    /\ (last.op = "train" /\ last.ok /\ last.prev.op = "setLearningRate") =>
            LET n == last.preNets[last.net]
                rate == last.prev.input[1]
                t == last.trace
            IN  /\ t.gradients =
                       [i \in 1..n.outputNodes |->
                           product(t.outputs[i], Scale - t.outputs[i],
                                   t.output_errors[i], rate)]
                /\ t.hidden_gradient =
                       [j \in 1..n.hiddenNodes |->
                           product(t.hidden[j], Scale - t.hidden[j],
                                   t.hidden_errors[j], rate)]

\* C12's case: a train() right after setLearningRate() with a negative rate,
\* which moved the network
C12_Witness ==
    /\ last.op = "train"
    /\ last.ok
    /\ last.prev.op = "setLearningRate"
    /\ last.prev.input[1] < 0
    /\ \E i \in 1..Len(last.trace.gradients) : last.trace.gradients[i] # 0
    /\ heap # last.preHeap

\* C13 (as claimed): a train() on a network that has just been restored by
\* deserialize(s) leaves the four grids of the snapshot s with the entries
\* they had, and leaves the matrices of every other network as they were.
C13_OwnsAfterDeserialize ==
    (last.op = "train" /\ last.prev.op = "deserialize" /\ last.prev.snap > 0) =>
        /\ grids(heap, snaps[last.prev.snap].data)
               = grids(last.preHeap, snaps[last.prev.snap].data)
        /\ \A id \in NetIds \ {last.net} : \A name \in MatrixNames :
               deref(heap, nets[id][name]) = deref(last.preHeap, last.preNets[id][name])

\* the App has come to rest: no state update is queued and no effect is left
\* to run
settled == ~app.queued /\ app.effects = {}

\* C14 (as claimed): once Load Model has completed with a saved model
\* present (the handler has run, and every render and effect it caused), the
\* live network holds the saved model's weights, biases and learning rate.
C14_LoadRestoresSavedModel ==
    (last.op = "handleLoadModel" /\ app.localStorage # NoItem /\ settled) =>
        /\ grids(heap, serialize(nets[1]))
               = [weights_ih |-> app.localStorage.weights_ih,
                  weights_ho |-> app.localStorage.weights_ho,
                  bias_h |-> app.localStorage.bias_h,
                  bias_o |-> app.localStorage.bias_o]
        /\ nets[1].learningRate = app.localStorage.learningRate

\* C15 (as claimed): moving the learning-rate slider changes only the
\* learning rate: once the click has completed, the live network has the
\* weights and biases it had before the click and the epoch counter shows
\* what it showed.
C15_SliderKeepsNetwork ==
    (last.op = "handleLearningRateChange" /\ settled) =>
        /\ grids(heap, serialize(nets[1]))
               = grids(last.preHeap, serialize(last.preNets[1]))
        /\ app.st.epoch = last.input[1]

\* training is stopped: isRunning is false, shown and queued, and the effect
\* of the render that stopped it has run
stopped == app.mounted /\ ~app.st.isRunning /\ ~app.nx.isRunning /\ app.effects = {}

\* C16: while training is stopped no animation-frame callback is pending,
\* and no step makes a train() call on the live network.
C16_NoTrainWhileStopped ==
    [][stopped => (app.pending = {} /\ app'.trains = app.trains)]_vars

\* C16's case: training ran, a frame was requested again, and the click
\* that stopped training cancelled it
C16_Witness ==
    /\ last.op = "handleStartStop"
    /\ stopped
    /\ app.trains > 0
    /\ app.cancelled # {}
    /\ app.animationFrameId \in app.cancelled

\* C17: at most one animation-frame callback for trainLoop is pending.
C17_OnePendingFrame == Cardinality(app.pending) <= 1

\* C17's case: a frame callback has run and requested the next frame, the
\* render for the new epoch has replaced trainLoop, and the effect has
\* cancelled that request and made its own
C17_Witness ==
    /\ app.trains > 0
    /\ app.st.isRunning
    /\ app.st.epoch > 0
    /\ app.effects = {}
    /\ app.cancelled # {}
    /\ Cardinality(app.pending) = 1

\* the addresses of the row arrays a stored matrix holds
rowsOf(obj) == {obj.data[i] : i \in 1..Len(obj.data)}

\* C18: a static subtract, transpose, multiply or map leaves both operands
\* with the rows, cols and entries they had and returns a matrix none of
\* whose row arrays is a row array of an operand; a later in-place add,
\* multiply or map on the result leaves the operands as they were.
C18_StaticOpsDoNotMutate ==
    mem.op # "" =>
        /\ held(mem.cells, mem.a) = mem.a0
        /\ held(mem.cells, mem.b) = mem.b0
        /\ mem.r.ok => rowsOf(mem.r.m) \cap (rowsOf(mem.a) \cup rowsOf(mem.b)) = {}

\* C18's case: an in-place operation has changed the entries of the matrix
\* a static operation returned
C18_Witness ==
    /\ mem.op \in StaticOps
    /\ mem.r.ok
    /\ mem.then \in InPlaceOps
    /\ held(mem.cells, mem.r.m) # mem.r0
=============================================================================
